---- MODULE Spec2Model ----
(***************************************************************************)
(* Model of the Python SDK client (sdks/python/src/axum_leptos_htmx_wc_sdk) *)
(* client.py : Client, ApiError                                            *)
(* types.py  : the pydantic records the responses are validated against    *)
(*                                                                         *)
(* One Client object is modelled together with the task that uses it.  A   *)
(* network operation is split at its only suspension point, the await of   *)
(* self._http.<verb>(...): the operation's action issues the request, and  *)
(* Respond / TransportFail / Cancel are the three ways the await ends.     *)
(*                                                                         *)
(* JSON values are records [t, s, n, o, items]: t is the JSON type, s the  *)
(* characters of a string, n the number (floats are kept in tenths, so     *)
(* 0.7 is n = 7 and 1.0 is n = 10; a bool is n = 1 or n = 0), o the        *)
(* members of an object and items the elements of a list.                  *)
(***************************************************************************)
EXTENDS Integers, Sequences, FiniteSets, TLC

(* ----------------------------- bounds --------------------------------- *)
MaxCalls == 2
MaxCloses == 2
MaxSlashes == 2
MaxItems == 2

(* ------------------------- program constants -------------------------- *)
DefaultLimit == 5
DefaultMinScoreTenths == 7

(* --------------------------- JSON values ------------------------------ *)
NoMembers == [k \in {} |-> 0]

JV(t, s, n, o, items) == [t |-> t, s |-> s, n |-> n, o |-> o, items |-> items]

JAbsent == JV("absent", <<>>, 0, NoMembers, <<>>)

JNull == JV("null", <<>>, 0, NoMembers, <<>>)

JStr(s) == JV("str", s, 0, NoMembers, <<>>)

JInt(n) == JV("int", <<>>, n, NoMembers, <<>>)

JFloat(tenths) == JV("float", <<>>, tenths, NoMembers, <<>>)

JBool(b) == JV("bool", <<>>, IF b THEN 1 ELSE 0, NoMembers, <<>>)

JObj(o) == JV("obj", <<>>, 0, o, <<>>)

JList(items) == JV("list", <<>>, 0, NoMembers, items)

EmptyObj == JObj(NoMembers)

Get(o, f) == IF f \in DOMAIN o THEN o[f] ELSE JAbsent

PresentKeys(o) == {k \in DOMAIN o : o[k].t # "absent"}

RECURSIVE SetToSeq(_)
SetToSeq(S) ==
  IF S = {} THEN <<>>
  ELSE LET x == CHOOSE y \in S : TRUE IN <<x>> \o SetToSeq(S \ {x})

(* ------------------- pydantic's lax-mode coercions -------------------- *)
Digits == {"0", "1", "2", "3", "4", "5", "6", "7", "8", "9"}

DigitVal(c) ==
  CASE c = "0" -> 0 [] c = "1" -> 1 [] c = "2" -> 2 [] c = "3" -> 3
    [] c = "4" -> 4 [] c = "5" -> 5 [] c = "6" -> 6 [] c = "7" -> 7
    [] c = "8" -> 8 [] c = "9" -> 9

IsDigits(s) == Len(s) > 0 /\ \A i \in 1..Len(s) : s[i] \in Digits

RECURSIVE StrToInt(_)
StrToInt(s) ==
  IF Len(s) = 0 THEN 0
  ELSE 10 * StrToInt(SubSeq(s, 1, Len(s) - 1)) + DigitVal(s[Len(s)])

BoolTrueStrs == {<<"1">>, <<"t">>, <<"y">>, <<"o", "n">>,
                 <<"y", "e", "s">>, <<"t", "r", "u", "e">>}

BoolFalseStrs == {<<"0">>, <<"f">>, <<"n">>, <<"n", "o">>,
                  <<"o", "f", "f">>, <<"f", "a", "l", "s", "e">>}

Ok(v) == [ok |-> TRUE, v |-> v]

Err == [ok |-> FALSE, v |-> JAbsent]

ValidateStr(x) == IF x.t = "str" THEN Ok(x) ELSE Err

ValidateInt(x) ==
  CASE x.t = "int" -> Ok(x)
    [] x.t = "bool" -> Ok(JInt(x.n))
    [] x.t = "float" -> IF x.n % 10 = 0 THEN Ok(JInt(x.n \div 10)) ELSE Err
    [] x.t = "str" -> IF IsDigits(x.s) THEN Ok(JInt(StrToInt(x.s))) ELSE Err
    [] OTHER -> Err

ValidateFloat(x) ==
  CASE x.t = "float" -> Ok(x)
    [] x.t = "int" -> Ok(JFloat(10 * x.n))
    [] x.t = "bool" -> Ok(JFloat(10 * x.n))
    [] x.t = "str" -> IF IsDigits(x.s) THEN Ok(JFloat(10 * StrToInt(x.s))) ELSE Err
    [] OTHER -> Err

ValidateBool(x) ==
  CASE x.t = "bool" -> Ok(x)
    [] x.t = "int" -> IF x.n \in {0, 1} THEN Ok(JBool(x.n = 1)) ELSE Err
    [] x.t = "float" -> IF x.n \in {0, 10} THEN Ok(JBool(x.n = 10)) ELSE Err
    [] x.t = "str" -> IF x.s \in BoolTrueStrs THEN Ok(JBool(TRUE))
                      ELSE IF x.s \in BoolFalseStrs THEN Ok(JBool(FALSE))
                      ELSE Err
    [] OTHER -> Err

ValidateDict(x) == IF x.t = "obj" THEN Ok(x) ELSE Err

ValidateOptional(inner, x) == IF x.t = "null" THEN Ok(JNull) ELSE inner

(* ----------------------- the records of types.py ---------------------- *)
Req(name, ty) == [name |-> name, ty |-> ty, req |-> TRUE, default |-> JAbsent]

Opt(name, ty, default) == [name |-> name, ty |-> ty, req |-> FALSE, default |-> default]

KnowledgeBaseConfig ==
  << Opt("embedding_provider", "str", JStr(<<>>)),
     Opt("embedding_model", "str", JStr(<<>>)),
     Opt("vector_dimensions", "optint", JNull),
     Opt("file_processor", "str", JStr(<<>>)),
     Opt("chunk_strategy", "str", JStr(<<>>)) >>

DefaultConfig ==
  JObj([f \in {KnowledgeBaseConfig[i].name : i \in 1..Len(KnowledgeBaseConfig)} |->
          (CHOOSE d \in {KnowledgeBaseConfig[i] : i \in 1..Len(KnowledgeBaseConfig)} :
             d.name = f).default])

ChatResponse == << Req("session_id", "str"), Req("stream_url", "str") >>

Message == << Req("role", "str"), Req("content", "str") >>

RunResponse == << Req("id", "str"), Req("stream_url", "str") >>

KnowledgeBase ==
  << Req("id", "str"), Req("name", "str"), Opt("description", "optstr", JNull),
     Opt("config", "config", DefaultConfig),
     Req("created_at", "str"), Req("updated_at", "str") >>

Document ==
  << Req("id", "str"), Req("kb_id", "str"), Req("filename", "str"),
     Opt("mime_type", "optstr", JNull), Req("chunk_count", "int"),
     Req("status", "str"), Opt("error_message", "optstr", JNull) >>

SearchResult ==
  << Req("content", "str"), Req("score", "float"), Req("metadata", "dict"),
     Opt("document_id", "optstr", JNull) >>

SearchResponse == << Req("results", "results") >>

IngestResponse == << Req("success", "bool"), Req("chunk_count", "int") >>

Schema(m) ==
  CASE m = "ChatResponse" -> ChatResponse
    [] m = "Message" -> Message
    [] m = "RunResponse" -> RunResponse
    [] m = "KnowledgeBaseConfig" -> KnowledgeBaseConfig
    [] m = "KnowledgeBase" -> KnowledgeBase
    [] m = "Document" -> Document
    [] m = "SearchResult" -> SearchResult
    [] m = "SearchResponse" -> SearchResponse
    [] m = "IngestResponse" -> IngestResponse

FieldSet(m) == {Schema(m)[i] : i \in 1..Len(Schema(m))}

FieldNames(m) == {fld.name : fld \in FieldSet(m)}

Field(m, f) == CHOOSE fld \in FieldSet(m) : fld.name = f

NoRecord == [k \in {} |-> JAbsent]

RECURSIVE model_validate(_, _)
ValidateType(ty, x) ==
  CASE ty = "str" -> ValidateStr(x)
    [] ty = "int" -> ValidateInt(x)
    [] ty = "float" -> ValidateFloat(x)
    [] ty = "bool" -> ValidateBool(x)
    [] ty = "dict" -> ValidateDict(x)
    [] ty = "optstr" -> ValidateOptional(ValidateStr(x), x)
    [] ty = "optint" -> ValidateOptional(ValidateInt(x), x)
    [] ty = "config" ->
         LET r == model_validate("KnowledgeBaseConfig", x)
         IN  IF r.ok THEN Ok(JObj(r.rec)) ELSE Err
    [] ty = "results" ->
         IF x.t # "list" THEN Err
         ELSE LET rs == [i \in 1..Len(x.items) |-> model_validate("SearchResult", x.items[i])]
              IN  IF \A i \in 1..Len(rs) : rs[i].ok
                  THEN Ok(JList([i \in 1..Len(rs) |-> JObj(rs[i].rec)]))
                  ELSE Err

ValidateField(fld, x) ==
  IF x.t = "absent" THEN (IF fld.req THEN Err ELSE Ok(fld.default))
  ELSE ValidateType(fld.ty, x)

model_validate(m, x) ==
  IF x.t # "obj" THEN [ok |-> FALSE, rec |-> NoRecord]
  ELSE LET fv == [f \in FieldNames(m) |-> ValidateField(Field(m, f), Get(x.o, f))]
       IN  IF \A f \in FieldNames(m) : fv[f].ok
           THEN [ok |-> TRUE, rec |-> [f \in FieldNames(m) |-> fv[f].v]]
           ELSE [ok |-> FALSE, rec |-> NoRecord]

(* ------------------ inputs: arguments and responses ------------------- *)
Host == <<"h", "/", "x">>

Slashes(k) == [i \in 1..k |-> "/"]

BaseUrls == {Host \o Slashes(k) : k \in 0..MaxSlashes}

RunIds == {<<"a", "b", "c">>, <<>>}

SessionId == <<"s">>

KbId == <<"k", "b">>

Alts == {JAbsent, JNull, JStr(<<"a">>), JStr(<<"1">>), JInt(1), JInt(3),
         JBool(TRUE), JFloat(5), JFloat(10), EmptyObj}

RECURSIVE ValidObj(_)
ValidValue(ty) ==
  CASE ty \in {"str", "optstr"} -> JStr(<<"a">>)
    [] ty \in {"int", "optint"} -> JInt(3)
    [] ty = "float" -> JFloat(5)
    [] ty = "bool" -> JBool(TRUE)
    [] ty \in {"dict", "config"} -> EmptyObj
    [] ty = "results" -> JList(<<JObj(ValidObj("SearchResult"))>>)

ValidObj(m) == [f \in FieldNames(m) |-> ValidValue(Field(m, f).ty)]

Objects(m) ==
  {ValidObj(m)} \cup
  {[ValidObj(m) EXCEPT ![f] = a] : f \in FieldNames(m), a \in Alts}

Elems(m) == {JObj(o) : o \in Objects(m)} \cup {JNull}

Lists(m) ==
  {<<>>} \cup
  UNION {UNION {{[i \in 1..k |-> IF i = j THEN e ELSE JObj(ValidObj(m))] : e \in Elems(m)}
                : j \in 1..k} : k \in 1..MaxItems}

DocsRecord(m) ==
  {JObj(o) : o \in Objects(m)} \cup {JNull, JList(<<>>), EmptyObj, JStr(<<"a">>)}
  \cup (IF m = "SearchResponse"
        THEN {JObj([f \in {"results"} |-> JList(l)]) : l \in Lists("SearchResult")}
        ELSE {})

DocsList(m) ==
  {JList(l) : l \in Lists(m)} \cup
  {JNull, JInt(3), EmptyObj, JObj(ValidObj(m)), JStr(<<>>), JStr(<<"a">>)}

NetOps == {"chat", "get_messages", "create_run", "list_knowledge_bases",
           "create_knowledge_base", "get_knowledge_base", "delete_knowledge_base",
           "list_documents", "search", "ingest"}

OpShape(op) ==
  CASE op \in {"get_messages", "list_knowledge_bases", "list_documents"} -> "list"
    [] op = "delete_knowledge_base" -> "none"
    [] OTHER -> "record"

OpModel(op) ==
  CASE op = "chat" -> "ChatResponse"
    [] op = "get_messages" -> "Message"
    [] op = "create_run" -> "RunResponse"
    [] op \in {"list_knowledge_bases", "create_knowledge_base", "get_knowledge_base"}
         -> "KnowledgeBase"
    [] op = "list_documents" -> "Document"
    [] op = "search" -> "SearchResponse"
    [] op = "ingest" -> "IngestResponse"
    [] OTHER -> "none"

NoBody == [kind |-> "none", text |-> <<>>, doc |-> JAbsent]

TextBody(s) == [kind |-> "text", text |-> s, doc |-> JAbsent]

JsonBody(d) == [kind |-> "json", text |-> <<>>, doc |-> d]

Bodies(op) ==
  {TextBody(<<"oops">>), TextBody(<<>>)} \cup
  (CASE OpShape(op) = "list" -> {JsonBody(d) : d \in DocsList(OpModel(op))}
     [] OpShape(op) = "record" -> {JsonBody(d) : d \in DocsRecord(OpModel(op))}
     [] OTHER -> {JsonBody(EmptyObj)})

SampleBodies(op) ==
  {TextBody(<<"oops">>), TextBody(<<>>), JsonBody(EmptyObj)} \cup
  (CASE OpShape(op) = "list" -> {JsonBody(JList(<<JObj(ValidObj(OpModel(op)))>>))}
     [] OpShape(op) = "record" -> {JsonBody(JObj(ValidObj(OpModel(op))))}
     [] OTHER -> {})

Responses(op) ==
  {[status |-> 200, body |-> b] : b \in Bodies(op)} \cup
  {[status |-> st, body |-> b] : st \in {199, 204, 299, 300, 404, 500}, b \in SampleBodies(op)}

NoResponse == [status |-> 0, body |-> NoBody]

(* ------------------------------ state --------------------------------- *)
VARIABLES ctor_arg, base_url, http, scope, phase, call, request, response,
          result, requests, calls, closeCalls

vars == <<ctor_arg, base_url, http, scope, phase, call, request, response,
          result, requests, calls, closeCalls>>

NoArgs == [k \in {} |-> JAbsent]

NoCall == [op |-> "none", args |-> NoArgs]

NoRequest == [method |-> "none", url |-> <<>>, json |-> NoMembers]

Res(kind, status, message, shape, rec, items, url) ==
  [kind |-> kind, status |-> status, message |-> message, shape |-> shape,
   rec |-> rec, items |-> items, url |-> url]

NoResult == Res("none", 0, NoBody, "none", NoRecord, <<>>, <<>>)

Raise(kind) == Res(kind, 0, NoBody, "none", NoRecord, <<>>, <<>>)

ApiError(status, message) == Res("ApiError", status, message, "none", NoRecord, <<>>, <<>>)

ReturnValue(shape, rec, items, url) == Res("value", 0, NoBody, shape, rec, items, url)

(* ------------------------- Client.__init__ ---------------------------- *)
rstrip_once(s, c) ==
  IF Len(s) > 0 /\ s[Len(s)] = c THEN SubSeq(s, 1, Len(s) - 1) ELSE s

RECURSIVE rstrip(_, _)
rstrip(s, c) ==
  IF Len(s) > 0 /\ s[Len(s)] = c THEN rstrip(SubSeq(s, 1, Len(s) - 1), c) ELSE s

Init ==
  /\ ctor_arg \in BaseUrls
  /\ base_url = rstrip(ctor_arg, "/")
  /\ http = [state |-> "OPEN", released |-> 0]
  /\ scope = "none"
  /\ phase = "idle"
  /\ call = NoCall
  /\ request = NoRequest
  /\ response = NoResponse
  /\ result = NoResult
  /\ requests = 0
  /\ calls = 0
  /\ closeCalls = 0

(* --------------------- httpx.AsyncClient behaviour -------------------- *)
aclose(h) ==
  IF h.state # "CLOSED"
  THEN [state |-> "CLOSED", released |-> h.released + 1]
  ELSE h

is_success(res) == 200 <= res.status /\ res.status <= 299

json(res) == IF res.body.kind = "json" THEN Ok(res.body.doc) ELSE Err

Iterate(x) ==
  CASE x.t = "list" -> [ok |-> TRUE, items |-> x.items]
    [] x.t = "obj" ->
         LET ks == SetToSeq(PresentKeys(x.o))
         IN  [ok |-> TRUE, items |-> [i \in 1..Len(ks) |-> JStr(<<ks[i]>>)]]
    [] x.t = "str" -> [ok |-> TRUE, items |-> [i \in 1..Len(x.s) |-> JStr(<<x.s[i]>>)]]
    [] OTHER -> [ok |-> FALSE, items |-> <<>>]

(* ---------------- the part of an operation after its await ------------ *)
check_response_only_4xx_5xx(res) ==
  IF res.status >= 400 THEN ApiError(res.status, res.body) ELSE NoResult

check_response(res) ==
  IF ~is_success(res) THEN ApiError(res.status, res.body) ELSE NoResult

ParseRecord(m, res) ==
  LET j == json(res)
  IN  IF ~j.ok THEN Raise("JSONDecodeError")
      ELSE LET v == model_validate(m, j.v)
           IN  IF v.ok THEN ReturnValue("record", v.rec, <<>>, <<>>)
               ELSE Raise("ValidationError")

ParseList_skip_invalid(m, res) ==
  LET j == json(res)
  IN  IF ~j.ok THEN Raise("JSONDecodeError")
      ELSE LET it == Iterate(j.v)
           IN  IF ~it.ok THEN Raise("TypeError")
               ELSE LET vs == [i \in 1..Len(it.items) |-> model_validate(m, it.items[i])]
                        good == SelectSeq(vs, LAMBDA v : v.ok)
                    IN  ReturnValue("list", NoRecord,
                                    [i \in 1..Len(good) |-> good[i].rec], <<>>)

ParseList(m, res) ==
  LET j == json(res)
  IN  IF ~j.ok THEN Raise("JSONDecodeError")
      ELSE LET it == Iterate(j.v)
           IN  IF ~it.ok THEN Raise("TypeError")
               ELSE LET vs == [i \in 1..Len(it.items) |-> model_validate(m, it.items[i])]
                    IN  IF \A i \in 1..Len(vs) : vs[i].ok
                        THEN ReturnValue("list", NoRecord,
                                         [i \in 1..Len(vs) |-> vs[i].rec], <<>>)
                        ELSE Raise("ValidationError")

Parse(op, res) ==
  CASE OpShape(op) = "record" -> ParseRecord(OpModel(op), res)
    [] OpShape(op) = "list" -> ParseList(OpModel(op), res)
    [] OTHER -> ReturnValue("none", NoRecord, <<>>, <<>>)

Return_parse_first(op, res) ==
  LET p == Parse(op, res)
  IN  IF p.kind # "value" THEN p
      ELSE LET c == check_response(res) IN IF c.kind # "none" THEN c ELSE p

Return(op, res) ==
  LET c == check_response(res)
  IN  IF c.kind # "none" THEN c ELSE Parse(op, res)

(* ---------------- the part of an operation up to its await ------------ *)
Send(op, args, method, url, body) ==
  /\ phase = "idle"
  /\ scope # "leaving"
  /\ calls < MaxCalls
  /\ calls' = calls + 1
  /\ call' = [op |-> op, args |-> args]
  /\ request' = [method |-> method, url |-> url, json |-> body]
  /\ requests' = requests + 1
  /\ response' = NoResponse
  /\ IF http.state = "CLOSED"
     THEN phase' = "idle" /\ result' = Raise("RuntimeError")
     ELSE phase' = "pending" /\ result' = NoResult
  /\ UNCHANGED <<ctor_arg, base_url, http, scope, closeCalls>>

Args1(k1, v1) == [k \in {k1} |-> v1]

Args2(k1, v1, k2, v2) == [k \in {k1, k2} |-> IF k = k1 THEN v1 ELSE v2]

Args3(k1, v1, k2, v2, k3, v3) ==
  [k \in {k1, k2, k3} |-> IF k = k1 THEN v1 ELSE IF k = k2 THEN v2 ELSE v3]

chat ==
  \E session_id \in {JNull, JStr(SessionId)} :
    LET message == JStr(<<"h", "i">>)
    IN  Send("chat", Args2("message", message, "session_id", session_id), "POST",
             base_url \o <<"/api/chat">>,
             Args2("message", message, "session_id", session_id))

get_messages ==
  Send("get_messages", Args1("session_id", JStr(SessionId)), "GET",
       base_url \o <<"/api/sessions/">> \o SessionId \o <<"/messages">>, NoMembers)

create_run ==
  \E context \in {JNull, EmptyObj} :
    LET input_text == JStr(<<"h", "i">>)
    IN  Send("create_run", Args2("input_text", input_text, "context", context), "POST",
             base_url \o <<"/api/runs">>,
             Args2("input", input_text, "context", context))

run_stream_url_value(run_id) == base_url \o <<"/api/runs/">> \o run_id \o <<"/stream">>

run_stream_url ==
  /\ phase = "idle"
  /\ scope # "leaving"
  /\ \E run_id \in RunIds :
       /\ call' = [op |-> "run_stream_url", args |-> Args1("run_id", JStr(run_id))]
       /\ result' = ReturnValue("url", NoRecord, <<>>, run_stream_url_value(run_id))
  /\ request' = NoRequest
  /\ response' = NoResponse
  /\ UNCHANGED <<ctor_arg, base_url, http, scope, phase, requests, calls, closeCalls>>

list_knowledge_bases ==
  Send("list_knowledge_bases", NoArgs, "GET", base_url \o <<"/api/knowledge">>, NoMembers)

model_dump_keep_none(r) == r

model_dump_exclude_none(r) == [k \in {f \in DOMAIN r : r[f].t # "null"} |-> r[k]]

create_knowledge_base ==
  \E description \in {JNull, JStr(<<>>), JStr(<<"d">>)} :
    LET req == Args2("name", JStr(<<"n">>), "description", description)
    IN  Send("create_knowledge_base", req, "POST",
             base_url \o <<"/api/knowledge">>, model_dump_exclude_none(req))

get_knowledge_base ==
  Send("get_knowledge_base", Args1("kb_id", JStr(KbId)), "GET",
       base_url \o <<"/api/knowledge/">> \o KbId, NoMembers)

delete_knowledge_base ==
  Send("delete_knowledge_base", Args1("kb_id", JStr(KbId)), "DELETE",
       base_url \o <<"/api/knowledge/">> \o KbId, NoMembers)

list_documents ==
  Send("list_documents", Args1("kb_id", JStr(KbId)), "GET",
       base_url \o <<"/api/knowledge/">> \o KbId \o <<"/documents">>, NoMembers)

search_body_default_score(query, limit, min_score) ==
  Args3("query", query,
        "limit", IF limit.t = "absent" THEN JInt(DefaultLimit) ELSE limit,
        "min_score", JFloat(DefaultMinScoreTenths))

search_body(query, limit, min_score) ==
  Args3("query", query,
        "limit", IF limit.t = "absent" THEN JInt(DefaultLimit) ELSE limit,
        "min_score", IF min_score.t = "absent" THEN JFloat(DefaultMinScoreTenths)
                     ELSE min_score)

search ==
  \E limit \in {JAbsent, JInt(10)}, min_score \in {JAbsent, JFloat(3)} :
    LET query == JStr(<<"q">>)
    IN  Send("search",
             [k \in {"kb_id", "query", "limit", "min_score"} |->
                CASE k = "kb_id" -> JStr(KbId) [] k = "query" -> query
                  [] k = "limit" -> limit [] k = "min_score" -> min_score],
             "POST", base_url \o <<"/api/knowledge/">> \o KbId \o <<"/search">>,
             search_body(query, limit, min_score))

ingest ==
  \E metadata \in {JNull, EmptyObj} :
    LET content == JStr(<<"c">>)
    IN  Send("ingest", Args2("content", content, "metadata", metadata), "POST",
             base_url \o <<"/api/ingest">>,
             Args2("content", content, "metadata", metadata))

(* ------------------- the three ways an await ends --------------------- *)
Respond_retry ==
  /\ phase = "pending"
  /\ \E res \in Responses(call.op) :
       /\ response' = res
       /\ IF is_success(res)
          THEN result' = Return(call.op, res) /\ phase' = "idle" /\ requests' = requests
          ELSE result' = NoResult /\ phase' = "pending" /\ requests' = requests + 1
  /\ UNCHANGED <<ctor_arg, base_url, http, scope, call, request, calls, closeCalls>>

Respond ==
  /\ phase = "pending"
  /\ \E res \in Responses(call.op) :
       /\ response' = res
       /\ result' = Return(call.op, res)
  /\ phase' = "idle"
  /\ UNCHANGED <<ctor_arg, base_url, http, scope, call, request, requests, calls, closeCalls>>

TransportFail ==
  /\ phase = "pending"
  /\ result' = Raise("TransportError")
  /\ phase' = "idle"
  /\ UNCHANGED <<ctor_arg, base_url, http, scope, call, request, response, requests,
                 calls, closeCalls>>

Cancel_closing ==
  /\ phase = "pending"
  /\ result' = Raise("CancelledError")
  /\ phase' = "idle"
  /\ scope' = IF scope = "entered" THEN "leaving" ELSE scope
  /\ http' = aclose(http)
  /\ UNCHANGED <<ctor_arg, base_url, call, request, response, requests, calls,
                 closeCalls>>

Cancel ==
  /\ phase = "pending"
  /\ result' = Raise("CancelledError")
  /\ phase' = "idle"
  /\ scope' = IF scope = "entered" THEN "leaving" ELSE scope
  /\ UNCHANGED <<ctor_arg, base_url, http, call, request, response, requests, calls,
                 closeCalls>>

(* --------------------------- lifecycle -------------------------------- *)
aenter ==
  /\ scope = "none"
  /\ phase = "idle"
  /\ scope' = "entered"
  /\ UNCHANGED <<ctor_arg, base_url, http, phase, call, request, response, result,
                 requests, calls, closeCalls>>

BodyEnd ==
  /\ scope = "entered"
  /\ phase = "idle"
  /\ scope' = "leaving"
  /\ UNCHANGED <<ctor_arg, base_url, http, phase, call, request, response, result,
                 requests, calls, closeCalls>>

aexit_no_aclose ==
  /\ scope = "leaving"
  /\ scope' = "exited"
  /\ UNCHANGED <<ctor_arg, base_url, http, phase, call, request, response, result,
                 requests, calls, closeCalls>>

aexit ==
  /\ scope = "leaving"
  /\ http' = aclose(http)
  /\ scope' = "exited"
  /\ UNCHANGED <<ctor_arg, base_url, phase, call, request, response, result,
                 requests, calls, closeCalls>>

close_no_aclose ==
  /\ phase = "idle"
  /\ scope # "leaving"
  /\ closeCalls < MaxCloses
  /\ closeCalls' = closeCalls + 1
  /\ UNCHANGED <<ctor_arg, base_url, http, scope, phase, call, request, response,
                 result, requests, calls>>

close ==
  /\ phase = "idle"
  /\ scope # "leaving"
  /\ closeCalls < MaxCloses
  /\ http' = aclose(http)
  /\ closeCalls' = closeCalls + 1
  /\ UNCHANGED <<ctor_arg, base_url, scope, phase, call, request, response, result,
                 requests, calls>>

Next ==
  \/ chat
  \/ get_messages
  \/ create_run
  \/ run_stream_url
  \/ list_knowledge_bases
  \/ create_knowledge_base
  \/ get_knowledge_base
  \/ delete_knowledge_base
  \/ list_documents
  \/ search
  \/ ingest
  \/ Respond
  \/ TransportFail
  \/ Cancel
  \/ aenter
  \/ BodyEnd
  \/ aexit
  \/ close

Spec == Init /\ [][Next]_vars

(* `async with` always runs __aexit__ once the body has finished, and the   *)
(* transport's default timeout ends an await that nothing else has ended.  *)
FairSpec == Spec /\ WF_vars(aexit) /\ WF_vars(TransportFail)

(* ======================= properties of the client ===================== *)
Done == phase = "idle" /\ call.op \in NetOps /\ response.status # 0

Is2xx(st) == st \in 200..299

DataOps == {op \in NetOps : OpShape(op) # "none"}

ParseErrors == {"ValidationError", "JSONDecodeError", "TypeError"}

(* C1: a response whose status is not 2xx makes every network operation    *)
(* fail with ApiError(status, body text); no value is returned.             *)
C1_NonSuccessRaisesApiError ==
  (Done /\ ~Is2xx(response.status)) =>
     /\ result.kind = "ApiError"
     /\ result.status = response.status
     /\ result.message = response.body
     /\ result.shape = "none"

C1_Witness ==
  /\ Done
  /\ call.op = "delete_knowledge_base"
  /\ response = [status |-> 300, body |-> TextBody(<<"oops">>)]
  /\ result.kind = "ApiError"

(* C2: once close() was called or the scope has ended the connection has    *)
(* been released exactly once, and it is never released more than once,     *)
(* whatever calls failed before.                                            *)
C2_ReleasedExactlyOnce ==
  /\ http.released <= 1
  /\ (closeCalls > 0 \/ scope = "exited") => http.released = 1

C2_Witness ==
  /\ closeCalls = MaxCloses
  /\ scope = "exited"
  /\ http.released = 1
  /\ result.kind = "ApiError"

(* C3: when the body of an `async with` scope has finished, on any exit     *)
(* path, __aexit__ eventually runs and the connection is released.          *)
C3_ScopeEndReleases == (scope = "leaving") ~> (scope = "exited" /\ http.released = 1)

C3_Witness ==
  /\ scope = "exited"
  /\ closeCalls = 0
  /\ http.released = 1
  /\ result.kind = "ValidationError"

(* C4 as stated: a cancellation of a pending request is always followed by  *)
(* the release of the connection, scoped client or not.                     *)
C4_CancelAlwaysReleases == (result.kind = "CancelledError") ~> (http.released = 1)

(* C4 amended: cancellation abandons the request (CancelledError, no value, *)
(* no further request) and does not itself touch the connection; inside an  *)
(* `async with` scope the unwinding scope then releases it.                 *)
C4_CancelInScopeReleases ==
  /\ (result.kind = "CancelledError" /\ scope = "leaving") ~> (http.released = 1)
  /\ [][(phase = "pending" /\ result'.kind = "CancelledError") =>
          (phase' = "idle" /\ result'.shape = "none" /\ http' = http
           /\ requests' = requests)]_vars

C4_Witness ==
  /\ result.kind = "CancelledError"
  /\ scope = "exited"
  /\ closeCalls = 0
  /\ http.released = 1

(* Values as Python compares them: 1 == 1.0 == True. *)
NumTenths(v) ==
  CASE v.t \in {"int", "bool"} -> 10 * v.n
    [] v.t = "float" -> v.n
    [] v.t = "str" /\ IsDigits(v.s) -> 10 * StrToInt(v.s)
    [] v.t = "str" /\ v.s \in BoolTrueStrs -> 10
    [] v.t = "str" /\ v.s \in BoolFalseStrs -> 0
    [] OTHER -> 0 - 1

SameValue(a, b) ==
  \/ a = b
  \/ a.t \in {"int", "float", "bool"} /\ b.t \in {"int", "float", "bool"}
     /\ NumTenths(a) = NumTenths(b)

HasType(ty, v) ==
  CASE ty \in {"str", "int", "float", "bool"} -> v.t = ty
    [] ty \in {"dict", "config"} -> v.t = "obj"
    [] ty = "optstr" -> v.t \in {"null", "str"}
    [] ty = "optint" -> v.t \in {"null", "int"}
    [] ty = "results" -> v.t = "list"

RECURSIVE RecordExact(_, _, _)
FieldExact(ty, r, p) ==
  /\ HasType(ty, r)
  /\ IF ty = "results"
     THEN /\ p.t = "list"
          /\ Len(r.items) = Len(p.items)
          /\ \A i \in 1..Len(r.items) :
               r.items[i].t = "obj" /\ RecordExact("SearchResult", r.items[i].o, p.items[i])
     ELSE SameValue(r, p)

RecordExact(m, rec, p) ==
  /\ p.t = "obj"
  /\ \A f \in FieldNames(m) :
       Field(m, f).req =>
         /\ f \in DOMAIN rec
         /\ Get(p.o, f).t # "absent"
         /\ FieldExact(Field(m, f).ty, rec[f], Get(p.o, f))

RECURSIVE RecordConforms(_, _, _)
FieldConforms(ty, r, p) ==
  /\ HasType(ty, r)
  /\ CASE ty \in {"str", "dict"} -> r = p
       [] ty \in {"int", "float", "bool"} -> NumTenths(p) >= 0 /\ NumTenths(r) = NumTenths(p)
       [] ty = "optstr" -> r = p
       [] ty = "optint" -> IF p.t = "null" THEN r = p
                           ELSE NumTenths(p) >= 0 /\ NumTenths(r) = NumTenths(p)
       [] ty = "config" -> RecordConforms("KnowledgeBaseConfig", r.o, p)
       [] ty = "results" ->
            /\ p.t = "list"
            /\ Len(r.items) = Len(p.items)
            /\ \A i \in 1..Len(r.items) :
                 r.items[i].t = "obj" /\ RecordConforms("SearchResult", r.items[i].o, p.items[i])

RecordConforms(m, rec, p) ==
  /\ p.t = "obj"
  /\ DOMAIN rec = FieldNames(m)
  /\ \A f \in FieldNames(m) :
       LET pv == Get(p.o, f)
       IN  IF pv.t = "absent"
           THEN ~Field(m, f).req /\ rec[f] = Field(m, f).default
           ELSE /\ FieldConforms(Field(m, f).ty, rec[f], pv)
                /\ HasType(Field(m, f).ty, pv) /\ Field(m, f).ty \notin {"config", "results"}
                     => rec[f] = pv

Payload == response.body.doc

(* C5 as stated: on a 2xx response a data-returning operation either fails  *)
(* while parsing or validating the body, or returns records whose required  *)
(* fields have the declared type and equal the payload's values.            *)
C5_ValidatedEqualsPayload ==
  (Done /\ Is2xx(response.status) /\ call.op \in DataOps) =>
     \/ result.kind \in ParseErrors
     \/ /\ result.kind = "value"
        /\ result.shape = OpShape(call.op)
        /\ IF result.shape = "record"
           THEN RecordExact(OpModel(call.op), result.rec, Payload)
           ELSE \A i \in 1..Len(result.items) :
                  /\ Payload.t = "list"
                  /\ i <= Len(Payload.items)
                  /\ RecordExact(OpModel(call.op), result.items[i], Payload.items[i])

(* C5 amended: the returned fields have the declared type and carry the     *)
(* payload's value up to pydantic's lax conversions (numeric value kept);   *)
(* optional fields that are absent take their default; a list operation     *)
(* returns one record per payload element, or [] for an empty object or     *)
(* empty string; failures are ValidationError, JSONDecodeError, or          *)
(* TypeError for a list operation whose payload is not iterable.            *)
C5_ValidatedUpToCoercion ==
  (Done /\ Is2xx(response.status) /\ call.op \in DataOps) =>
     \/ result.kind = "JSONDecodeError" /\ response.body.kind # "json"
     \/ result.kind = "ValidationError" /\ response.body.kind = "json"
     \/ /\ result.kind = "TypeError"
        /\ OpShape(call.op) = "list"
        /\ response.body.kind = "json"
        /\ Payload.t \notin {"list", "obj", "str"}
     \/ /\ result.kind = "value"
        /\ response.body.kind = "json"
        /\ result.shape = OpShape(call.op)
        /\ IF result.shape = "record"
           THEN RecordConforms(OpModel(call.op), result.rec, Payload)
           ELSE IF Payload.t = "list"
                THEN /\ Len(result.items) = Len(Payload.items)
                     /\ \A i \in 1..Len(result.items) :
                          RecordConforms(OpModel(call.op), result.items[i], Payload.items[i])
                ELSE Payload \in {EmptyObj, JStr(<<>>)} /\ result.items = <<>>

C5_Witness ==
  /\ Done
  /\ call.op = "ingest"
  /\ response.status = 200
  /\ response.body.kind = "json"
  /\ Payload.t = "obj"
  /\ Get(Payload.o, "chunk_count") = JStr(<<"1">>)
  /\ result.kind = "value"
  /\ result.rec["chunk_count"] = JInt(1)

(* C6: the body create_knowledge_base sends has `name`, has `description`   *)
(* exactly when the request's description is not null, and no null member.  *)
C6_CreateKbOmitsNull ==
  (call.op = "create_knowledge_base") =>
     /\ request.method = "POST"
     /\ request.url = base_url \o <<"/api/knowledge">>
     /\ "name" \in DOMAIN request.json
     /\ ("description" \in DOMAIN request.json) <=> (call.args["description"].t # "null")
     /\ \A k \in DOMAIN request.json :
          request.json[k].t # "null" /\ request.json[k] = call.args[k]

C6_Witness ==
  /\ call.op = "create_knowledge_base"
  /\ call.args["description"] = JNull
  /\ DOMAIN request.json = {"name"}

(* The base address without its trailing slashes, stated without rstrip.    *)
Stripped(s) ==
  CHOOSE p \in {SubSeq(s, 1, k) : k \in 0..Len(s)} :
    /\ (p = <<>> \/ p[Len(p)] # "/")
    /\ \A i \in (Len(p) + 1)..Len(s) : s[i] = "/"

(* C7: run_stream_url returns {base}/api/runs/{run_id}/stream, base being   *)
(* the constructor's address without trailing slashes, and a call to it     *)
(* sends no request and changes neither base address nor connection.        *)
C7_RunStreamUrlPure ==
  /\ [](result.shape = "url" =>
          /\ call.op = "run_stream_url"
          /\ result.url = Stripped(ctor_arg) \o <<"/api/runs/">>
                            \o call.args["run_id"].s \o <<"/stream">>)
  /\ [][(result'.shape = "url" /\ (result' # result \/ call' # call)) =>
          /\ requests' = requests
          /\ request' = NoRequest
          /\ phase' = phase
          /\ http' = http
          /\ base_url' = base_url]_vars

C7_Witness ==
  /\ result.shape = "url"
  /\ http.state = "CLOSED"
  /\ requests = 0
  /\ ctor_arg = <<"h", "/", "x", "/", "/">>
  /\ result.url = <<"h", "/", "x", "/api/runs/", "a", "b", "c", "/stream">>

(* C8: every invocation of a network operation hands exactly one request    *)
(* to the connection; nothing that ends the await sends another one.        *)
C8_OneRequestPerCall ==
  /\ [](requests = calls)
  /\ [][calls' # calls => requests' = requests + 1]_vars
  /\ [][phase = "pending" => requests' = requests]_vars

C8_Witness ==
  /\ calls = MaxCalls
  /\ requests = MaxCalls
  /\ Done
  /\ result.kind = "ApiError"

(* C9: search sends {query, limit, min_score} to POST                       *)
(* /api/knowledge/{kb_id}/search with limit 5 and min_score 0.7 unless the  *)
(* caller supplies them, and supplied values are sent verbatim.             *)
C9_SearchDefaults ==
  (call.op = "search") =>
     /\ request.method = "POST"
     /\ request.url = base_url \o <<"/api/knowledge/">> \o call.args["kb_id"].s
                        \o <<"/search">>
     /\ DOMAIN request.json = {"query", "limit", "min_score"}
     /\ request.json["query"] = call.args["query"]
     /\ request.json["limit"] =
          (IF call.args["limit"].t = "absent" THEN JInt(5) ELSE call.args["limit"])
     /\ request.json["min_score"] =
          (IF call.args["min_score"].t = "absent" THEN JFloat(7)
           ELSE call.args["min_score"])

C9_Witness ==
  /\ call.op = "search"
  /\ call.args["limit"] = JAbsent
  /\ call.args["min_score"] = JFloat(3)
  /\ request.json["limit"] = JInt(5)
  /\ request.json["min_score"] = JFloat(3)

(* C10: the status check comes before parsing: a parse or validation error  *)
(* is only raised for a 2xx response, and a non-2xx response whose body     *)
(* would not parse or validate still raises ApiError(status, body).         *)
C10_StatusCheckFirst ==
  (Done /\ call.op \in DataOps) =>
     /\ result.kind \in ParseErrors => Is2xx(response.status)
     /\ (~Is2xx(response.status) /\ Parse(call.op, response).kind \in ParseErrors)
          => result = ApiError(response.status, response.body)

C10_Witness ==
  /\ Done
  /\ call.op = "ingest"
  /\ response = [status |-> 500, body |-> JsonBody(EmptyObj)]
  /\ Parse(call.op, response).kind = "ValidationError"
  /\ result.kind = "ApiError"

====
